---- MODULE Spec2Model ----
(***************************************************************************)
(* The Cost Katana extension: the CostKatanaAPI client (src/src/api.ts)    *)
(* and the automatic-tracking code of activate() (src/unnamed/part_001).   *)
(* JavaScript runs one handler at a time: every action below is the code   *)
(* that runs between two suspension points (an event arrives / a fetch     *)
(* settles ... the next fetch is issued or the handler returns).           *)
(***************************************************************************)
EXTENDS Integers, Sequences, FiniteSets, TLC

\* Operations that may be awaiting a response at the same time.
MaxCalls == 1

\* ------------------------------------------------------------ JS values

\* The JavaScript value undefined (an unset optional string).
Undefined == "undefined"

\* JSON null, as response.json() returns it for the body "null".
Null == [null |-> TRUE]

\* A body that is not JSON: response.json() throws a SyntaxError.
NonJson == [nonjson |-> TRUE]

\* No payload passed to makeRequest (data is undefined) / no request body.
NoData == <<>>

\* JavaScript truthiness of an optional string.
Truthy(v) == v # Undefined /\ v # ""

DefaultBaseUrl == "https://cost-katana-backend.store/api"

BaseUrls == {DefaultBaseUrl, "https://example.test/api"}

ApiKeys == {"k1", "k2"}

UserIds == {"u1"}

Emails == {"a@example.test", "b@example.test"}

\* ------------------------------------------------------------ state

VARIABLES
    baseUrl,    \* CostKatanaAPI.baseUrl
    apiKey,     \* CostKatanaAPI.apiKey
    userId,     \* CostKatanaAPI.userId
    automaticTrackingEnabled,   \* part_001 14
    lastTrackedRequest,         \* part_001 15: <<>> (null) or <<hash>>
    calls,      \* the operations awaiting a fetch, by slot
    lastSent,   \* <<r>>: the request the last step handed to fetch, else <<>>
    returned,   \* <<c>>: the operation the last step settled, else <<>>
    trk,        \* the trackAIInteraction invocations of the last step, in order
    accepted,   \* <<>> or <<u>>: the usage of the last track_usage sent by the tracker
    aaba,       \* how much of the run A, A, B, A has just been observed
    run,        \* <<>> or <<p>>: the label of the Cursor command invoked last,
                \* noted where the Cursor commands are studied alone
    timers,     \* api.ts 384: the period of each interval timer set
    shown,      \* the messages the last step showed to the user, in order
    passed      \* the inserted runs the change loop passed over in the last step

cfgVars == <<baseUrl, apiKey, userId>>

trackVars == <<automaticTrackingEnabled, lastTrackedRequest, accepted, aaba, run>>

vars == <<baseUrl, apiKey, userId, automaticTrackingEnabled, lastTrackedRequest,
          calls, lastSent, returned, trk, accepted, aaba, run, timers, shown, passed>>

Slots == 1 .. MaxCalls

Idle == [op |-> "idle"]

\* ------------------------------------------------------------ makeRequest

\* The fields of an envelope whose value may be undefined.
OptionalFields == {"user_id", "api_key"}

\* JSON.stringify of an object: a field whose value is undefined is left out.
JSONStringify(data) ==
    LET kept == {f \in DOMAIN data : ~(f \in OptionalFields /\ data[f] = Undefined)}
    IN  [f \in kept |-> data[f]]

\* Headers with the key tested against undefined only.
HeadersWhenDefined(key) ==
    IF key # Undefined
    THEN [ContentType |-> "application/json", Authorization |-> "Bearer " \o key]
    ELSE [ContentType |-> "application/json"]

\* api.ts 84-91: the headers of a request.
Headers(key) ==
    IF Truthy(key)
    THEN [ContentType |-> "application/json", Authorization |-> "Bearer " \o key]
    ELSE [ContentType |-> "application/json"]

\* api.ts 83-104: the request makeRequest hands to fetch. op, endpoint and
\* data (the arguments) are kept for the properties; url, method, headers
\* and body are what goes on the wire.
BuildRequest(op, endpoint, method, data) ==
    [ op       |-> op,
      endpoint |-> endpoint,
      method   |-> method,
      url      |-> baseUrl \o endpoint,
      headers  |-> Headers(apiKey),
      data     |-> data,
      body     |-> IF data # NoData THEN JSONStringify(data) ELSE NoData ]

\* What is kept of a request once it is with fetch: its method and path.
Wire(req) == [endpoint |-> req.endpoint, method |-> req.method]

\* A JSON string and a JSON number, the number held in millionths.
JsString(v) == [type |-> "string", value |-> v]

JsNumber(micro) == [type |-> "number", micro |-> micro]

\* api.ts 178-185: the data of a tracking answer; cost is declared a string.
ServerData == [cost |-> JsString("0.002"), tokens |-> 3]

\* The same data with cost a number, and with cost missing.
NumericData == [cost |-> JsNumber(2000), tokens |-> 3]

PartialData == [tokens |-> 3]

Obj(s, d, e, m) ==
    (IF s = "absent" THEN <<>> ELSE [success |-> (s = "true")])
    @@ (IF d THEN [data |-> ServerData] ELSE <<>>)
    @@ (IF e THEN [error |-> "server error"] ELSE <<>>)
    @@ (IF m THEN [message |-> "server message"] ELSE <<>>)

\* The JSON objects a server may answer with: each APIResponse field present
\* or not.
Objects ==
    {Obj(s, d, e, m) : s \in {"absent", "true", "false"},
                       d \in BOOLEAN, e \in BOOLEAN, m \in BOOLEAN}

StatusText(status) ==
    CASE status = 200 -> "OK"
      [] status = 404 -> "Not Found"
      [] status = 500 -> "Internal Server Error"

\* The bodies tried with a 2xx status: not JSON, null, and every object
\* without a message (the code never reads the message of a 2xx body).
OkBodies == {NonJson, Null} \cup {b \in Objects : ~("message" \in DOMAIN b)}

\* The bodies tried with an error status: not JSON, null, and the objects
\* with and without error and message (the code reads nothing else of them).
ErrorBodies ==
    {NonJson, Null}
    \cup {b \in Objects : ("success" \in DOMAIN b) /\ ~b.success /\ ~("data" \in DOMAIN b)}
    \cup {Obj("true", TRUE, FALSE, FALSE), Obj("absent", FALSE, FALSE, FALSE)}

\* What fetch can do with a request: reject (with a TypeError whose message
\* holds 'fetch', or with another error), or resolve with a response.
Outcomes ==
    {[kind |-> "reject", fetchTypeError |-> b] : b \in BOOLEAN}
    \cup {[kind |-> "response", status |-> 200, body |-> b] : b \in OkBodies}
    \cup {[kind |-> "response", status |-> 500, body |-> b] : b \in ErrorBodies}

ResponseOk(o) == o.status >= 200 /\ o.status <= 299

Has(r, f) == f \in DOMAIN r

\* (result as any).x || fallback
OrElse(r, f, fallback) == IF Has(r, f) /\ r[f] # "" THEN r[f] ELSE fallback

\* A catch block with one message for every failure.
CaughtOneMessage(isFetchTypeError, message) ==
    [success |-> FALSE,
     error   |-> "Cannot connect to backend server. Please check if the backend URL is correct: "
                 \o baseUrl,
     message |-> "Network error occurred"]

\* api.ts 119-135: the catch block.
Caught(isFetchTypeError, message) ==
    IF isFetchTypeError
    THEN [ success |-> FALSE,
           error   |-> "Cannot connect to backend server. Please check if the backend URL is correct: " \o baseUrl,
           message |-> "Network connection failed" ]
    ELSE [ success |-> FALSE,
           error   |-> message,
           message |-> "Network error occurred" ]

\* api.ts 104-135: what makeRequest resolves with once fetch has settled.
MakeRequestResult(o) ==
    IF o.kind = "reject"
    THEN Caught(o.fetchTypeError, IF o.fetchTypeError THEN "fetch failed" ELSE "The operation was aborted")
    ELSE IF o.body = NonJson
    THEN Caught(FALSE, "Unexpected token < in JSON at position 0")
    ELSE IF ~ResponseOk(o)
    THEN IF o.body = Null
         THEN Caught(FALSE, "Cannot read properties of null (reading 'error')")
         ELSE [ success |-> FALSE,
                error   |-> OrElse(o.body, "error",
                                   "HTTP " \o ToString(o.status) \o ": " \o StatusText(o.status)),
                message |-> OrElse(o.body, "message", "Request failed") ]
    ELSE o.body

\* ------------------------------------------------------------ catalog

\* The identity fields without the key.
IdentUserOnly == [user_id |-> userId]

\* api.ts 186-189 (and the same two lines of every other envelope): the
\* identity fields of an envelope.
Ident == [user_id |-> userId, api_key |-> apiKey]

\* n / 4 rounded down.
Floor4(n) == n \div 4

\* Math.ceil(n / 4)
Ceil4(n) == (n + 3) \div 4

\* api.ts 186-208: the envelope of trackUsage.
TrackUsageEnvelope(usage) ==
    [ action     |-> "track_usage",
      user_id    |-> userId,
      api_key    |-> apiKey,
      ai_request |-> [ prompt       |-> usage.prompt,
                       response     |-> usage.response,
                       model        |-> usage.model,
                       request_type |-> "code_generation",
                       success      |-> TRUE,
                       tokens_used  |->
                           [ prompt_tokens     |-> Ceil4(Len(usage.prompt)),
                             completion_tokens |-> Ceil4(Len(usage.response)),
                             total_tokens      |-> Ceil4(Len(usage.prompt))
                                                   + Ceil4(Len(usage.response)) ] ] ]

\* The usage a direct call of trackUsage is made with.
SampleUsage == [prompt |-> "Hello", response |-> "Hi there", model |-> "gpt-4o"]

\* Every envelope tagged track_usage.
EnvelopeOneTag(op) == [action |-> "track_usage", user_id |-> userId, api_key |-> apiKey]

\* api.ts 178-347: the envelope of each single-request operation.
Envelope(op) ==
    CASE op = "trackUsage"     -> TrackUsageEnvelope(SampleUsage)
      [] op = "optimizePrompt" -> [action |-> "optimize_prompt"] @@ Ident
      [] op = "getAnalytics"   -> [action |-> "get_analytics"] @@ Ident
      [] op = "setupWorkspace" -> [action |-> "workspace_setup"] @@ Ident
      [] op = "getSuggestions" -> [action |-> "get_suggestions"] @@ Ident
      [] op = "analyzeCode"    -> [action |-> "analyze_code"] @@ Ident
      [] op = "getProjects"    -> [action |-> "get_projects"] @@ Ident
      [] op = "createProject"  -> [action |-> "create_project"] @@ Ident

SingleOps ==
    {"trackUsage", "optimizePrompt", "getAnalytics", "setupWorkspace",
     "getSuggestions", "analyzeCode", "getProjects", "createProject"}

FreeSlots == {t \in Slots : calls[t] = Idle}

\* Starts an operation: its first request goes to fetch and it awaits.
Start(op, req, local) ==
    /\ FreeSlots # {}
    /\ LET t == CHOOSE s \in FreeSlots : \A u \in FreeSlots : s <= u
       IN  calls' = [calls EXCEPT ![t] =
                        [op |-> op, sent |-> <<Wire(req)>>, builtWith |-> baseUrl] @@ local]
    /\ lastSent' = <<req>>

\* An awaiting operation hands its next request to fetch.
Continue(t, req, local) ==
    /\ calls' = [calls EXCEPT ![t] =
                     local @@ [@ EXCEPT !.sent = Append(@, Wire(req)),
                                        !.builtWith = baseUrl]]
    /\ lastSent' = <<req>>

\* The caller pending in slot t calls another operation, whose first fetch
\* it awaits: sent starts over with that operation's request.
Again(t, req, local) ==
    /\ calls' = [calls EXCEPT ![t] =
                    local @@ [@ EXCEPT !.sent = <<Wire(req)>>, !.builtWith = baseUrl]]
    /\ lastSent' = <<req>>

\* An operation settles, fetch having settled with outcome o: its promise
\* resolves with a value or rejects.
Settle(t, o, how, value) ==
    /\ returned' = <<[how |-> how, value |-> value, outcome |-> o] @@ calls[t]>>
    /\ calls' = [calls EXCEPT ![t] = Idle]
    /\ lastSent' = <<>>

\* response.success, read of a value makeRequest returned: reading a
\* property of null throws a TypeError.
ReadThrows(res) == res = Null

SuccessTruthy(res) == res # Null /\ Has(res, "success") /\ res.success = TRUE

TypeErrorSuccess == [thrown |-> "TypeError: Cannot read properties of null (reading 'success')"]

\* The message of that TypeError.
NullReadMessage == "Cannot read properties of null (reading 'success')"

\* vscode.window.showInformationMessage, showErrorMessage: what is shown.
\* (Pictographs that open a message are left out.)
Information(text) == [kind |-> "information", text |-> text]

ErrorMessage(text) == [kind |-> "error", text |-> text]

\* part_001 146-860: the commands that call the backend. For each: the
\* operation it awaits, whether its success test asks for data as well,
\* the text around result.error in its failure message, the text around
\* the exception's message in its catch block, and a label for what its
\* success branch displays.
Commands ==
    { [command |-> "connect-account", op |-> "generateMagicLink", needsData |-> TRUE,
       failed |-> "Failed to generate magic link: ", failedTail |-> "",
       caught |-> "Error: ", caughtTail |-> "",
       done |-> "Magic link generated! Opening in browser..."],
      [command |-> "track-usage", op |-> "trackUsage", needsData |-> TRUE,
       failed |-> "Failed to track usage: ",
       failedTail |-> "\n\nPlease check your API key and network connection.",
       caught |-> "Error tracking usage: ",
       caughtTail |-> "\n\nPlease check your network connection and try again.",
       done |-> "Usage tracked successfully!"],
      [command |-> "optimize-prompt", op |-> "optimizePrompt", needsData |-> TRUE,
       failed |-> "Failed to optimize prompt: ", failedTail |-> "",
       caught |-> "Error: ", caughtTail |-> "",
       done |-> "Prompt optimized!"],
      [command |-> "show-analytics", op |-> "getAnalytics", needsData |-> TRUE,
       failed |-> "Failed to get analytics: ", failedTail |-> "",
       caught |-> "Error: ", caughtTail |-> "",
       done |-> "Analytics"],
      [command |-> "setup-workspace", op |-> "setupWorkspace", needsData |-> TRUE,
       failed |-> "Failed to setup workspace: ", failedTail |-> "",
       caught |-> "Error: ", caughtTail |-> "",
       done |-> "Workspace connected"],
      [command |-> "get-suggestions", op |-> "getSuggestions", needsData |-> TRUE,
       failed |-> "Failed to get suggestions: ", failedTail |-> "",
       caught |-> "Error: ", caughtTail |-> "",
       done |-> "Suggestions"],
      [command |-> "analyze-code", op |-> "analyzeCode", needsData |-> TRUE,
       failed |-> "Failed to analyze code: ", failedTail |-> "",
       caught |-> "Error: ", caughtTail |-> "",
       done |-> "Code Analysis Results"],
      [command |-> "health-check", op |-> "validateConnection", needsData |-> FALSE,
       failed |-> "API health check failed: ", failedTail |-> "",
       caught |-> "Health check failed: ", caughtTail |-> "",
       done |-> "API is healthy and accessible!"] }

CommandNamed(name) == CHOOSE c \in Commands : c.command = name

\* `${result.error}` in a failure message; track-usage has
\* result.error || 'Unknown error' in its place (part_001 352).
ErrorText(cmd, res) ==
    IF Has(res, "error") /\ (cmd.command # "track-usage" \/ res.error # "") THEN res.error
    ELSE IF cmd.command = "track-usage" THEN "Unknown error"
    ELSE "undefined"

\* What a command shows once the operation it awaited has settled as c: the
\* catch block's message if the operation threw or reading result.success
\* throws, the success display if the success test passes, and else the
\* failure message. (The success branch is not followed further.)
CommandResult(cmd, c) ==
    IF c.how = "rejected" \/ ReadThrows(c.value)
    THEN <<ErrorMessage(cmd.caught \o NullReadMessage \o cmd.caughtTail)>>
    ELSE IF SuccessTruthy(c.value) /\ (cmd.needsData => Has(c.value, "data"))
    THEN <<Information(cmd.done)>>
    ELSE <<ErrorMessage(cmd.failed \o ErrorText(cmd, c.value) \o cmd.failedTail)>>

\* What the step that settled ret shows: nothing, unless the operation was
\* awaited by a command.
CommandShows(ret) ==
    IF ret = <<>> \/ "command" \notin DOMAIN ret[1] THEN <<>>
    ELSE CommandResult(CommandNamed(ret[1].command), ret[1])

\* api.ts 178-347: trackUsage, optimizePrompt, ..., createProject. Each
\* returns makeRequest's promise: what awaits is makeRequest itself.
CatalogCall(op) ==
    /\ Start("makeRequest", BuildRequest(op, "/cursor/action", "POST", Envelope(op)), <<>>)
    /\ returned' = <<>>
    /\ trk' = <<>>
    /\ passed' = <<>>
    /\ shown' = <<>>
    /\ UNCHANGED <<cfgVars, trackVars, timers>>

\* A dispatcher that tries once more when a request has failed.
CatalogReturnRetrying(t, o) ==
    /\ calls[t].op = "makeRequest"
    /\ IF Len(calls[t].sent) = 1 /\ ~SuccessTruthy(MakeRequestResult(o))
       THEN /\ Continue(t, BuildRequest("getProjects", calls[t].sent[1].endpoint,
                                        calls[t].sent[1].method, Envelope("getProjects")), <<>>)
            /\ returned' = <<>>
       ELSE Settle(t, o, "resolved", MakeRequestResult(o))
    /\ trk' = <<>>
    /\ passed' = <<>>
    /\ shown' = CommandShows(returned')
    /\ UNCHANGED <<cfgVars, trackVars, timers>>

\* api.ts 104-118, 178-347: the request of a single-request operation
\* settles and the operation returns what makeRequest returns.
CatalogReturn(t, o) ==
    /\ calls[t].op = "makeRequest"
    /\ Settle(t, o, "resolved", MakeRequestResult(o))
    /\ trk' = <<>>
    /\ passed' = <<>>
    /\ shown' = CommandShows(returned')
    /\ UNCHANGED <<cfgVars, trackVars, timers>>

\* A plain GET of the pricing updates, bypassing the multiplexed endpoint.
GetPricingUpdates ==
    /\ Start("makeRequest", BuildRequest("getPricingUpdates", "/pricing/updates", "GET", NoData), <<>>)
    /\ returned' = <<>>
    /\ trk' = <<>>
    /\ passed' = <<>>
    /\ shown' = <<>>
    /\ UNCHANGED <<cfgVars, trackVars, timers>>

\* Whether the exchange o ended in a 2xx answer whose JSON object says
\* success: true; noted with a call for each of its settled requests.
SaidSuccess(o) ==
    /\ o.kind = "response"
    /\ o.status \in 200 .. 299
    /\ o.body \notin {Null, NonJson}
    /\ "success" \in DOMAIN o.body
    /\ o.body.success

\* api.ts 139-144: generateMagicLink tries the multiplexed endpoint first.
MagicLinkEnvelope(email) == [action |-> "generate_magic_link", email |-> email]

GenerateMagicLink(email) ==
    /\ Start("generateMagicLink",
             BuildRequest("generateMagicLink", "/cursor/action", "POST", MagicLinkEnvelope(email)),
             [email |-> email])
    /\ returned' = <<>>
    /\ trk' = <<>>
    /\ passed' = <<>>
    /\ shown' = <<>>
    /\ UNCHANGED <<cfgVars, trackVars, timers>>

\* generateMagicLink returning its first result whatever it reports.
MagicLinkFirstOnly(t, o) ==
    /\ calls[t].op = "generateMagicLink"
    /\ Len(calls[t].sent) = 1
    /\ Settle(t, o, "resolved", MakeRequestResult(o))
    /\ trk' = <<>>
    /\ passed' = <<>>
    /\ shown' = CommandShows(returned')
    /\ UNCHANGED <<cfgVars, trackVars, timers>>

\* api.ts 146-154: the first result is returned if it reports success;
\* otherwise the direct endpoint is tried and its promise returned.
MagicLinkFirst(t, o) ==
    /\ calls[t].op = "generateMagicLink"
    /\ Len(calls[t].sent) = 1
    /\ LET res == MakeRequestResult(o) IN
       IF ReadThrows(res)
       THEN Settle(t, o, "rejected", TypeErrorSuccess)
       ELSE IF SuccessTruthy(res)
       THEN Settle(t, o, "resolved", res)
       ELSE /\ Continue(t, BuildRequest("generateMagicLink", "/auth/magic-link", "POST",
                                        [email |-> calls[t].email]),
                            [first |-> SaidSuccess(o)])
            /\ returned' = <<>>
    /\ trk' = <<>>
    /\ passed' = <<>>
    /\ shown' = CommandShows(returned')
    /\ UNCHANGED <<cfgVars, trackVars, timers>>

\* api.ts 152-154: the fallback's result is the final result.
MagicLinkSecond(t, o) ==
    /\ calls[t].op = "generateMagicLink"
    /\ Len(calls[t].sent) = 2
    /\ Settle(t, o, "resolved", MakeRequestResult(o))
    /\ trk' = <<>>
    /\ passed' = <<>>
    /\ shown' = CommandShows(returned')
    /\ UNCHANGED <<cfgVars, trackVars, timers>>

\* The health paths with the first two swapped.
HealthEndpointsSwapped == <<"/health", "/cursor/health", "/api/health">>

\* api.ts 159: the health paths, in the order they are tried.
HealthEndpoints == <<"/cursor/health", "/health", "/api/health">>

AllFailed == [success |-> FALSE, error |-> "All health check endpoints failed"]

\* api.ts 157-163: validateConnection probes the first path.
ValidateConnection ==
    /\ Start("validateConnection",
             BuildRequest("validateConnection", HealthEndpoints[1], "GET", NoData),
             [results |-> <<>>])
    /\ returned' = <<>>
    /\ trk' = <<>>
    /\ passed' = <<>>
    /\ shown' = <<>>
    /\ UNCHANGED <<cfgVars, trackVars, timers>>

\* validateConnection taking a probe answered with a 2xx status for a
\* success.
ProbeSettlesByStatus(t, o) ==
    /\ calls[t].op = "validateConnection"
    /\ LET res == MakeRequestResult(o)
           i   == Len(calls[t].sent)
       IN  IF (o.kind = "response" /\ ResponseOk(o)) \/ (~ReadThrows(res) /\ SuccessTruthy(res))
           THEN Settle(t, o, "resolved", res)
           ELSE IF i < Len(HealthEndpoints)
           THEN /\ Continue(t, BuildRequest("validateConnection", HealthEndpoints[i + 1],
                                            "GET", NoData),
                            [results |-> Append(calls[t].results, SaidSuccess(o))])
                /\ returned' = <<>>
           ELSE Settle(t, o, "resolved", AllFailed)
    /\ trk' = <<>>
    /\ passed' = <<>>
    /\ shown' = CommandShows(returned')
    /\ UNCHANGED <<cfgVars, trackVars, timers>>

\* validateConnection returning the last probe's own result when all fail.
ProbeSettlesLastResult(t, o) ==
    /\ calls[t].op = "validateConnection"
    /\ LET res == MakeRequestResult(o)
           i   == Len(calls[t].sent)
       IN  IF ~ReadThrows(res) /\ SuccessTruthy(res)
           THEN Settle(t, o, "resolved", res)
           ELSE IF i < Len(HealthEndpoints)
           THEN /\ Continue(t, BuildRequest("validateConnection", HealthEndpoints[i + 1],
                                            "GET", NoData),
                            [results |-> Append(calls[t].results, SaidSuccess(o))])
                /\ returned' = <<>>
           ELSE Settle(t, o, "resolved", res)
    /\ trk' = <<>>
    /\ passed' = <<>>
    /\ shown' = CommandShows(returned')
    /\ UNCHANGED <<cfgVars, trackVars, timers>>

\* api.ts 161-176: a probe settles. A result reporting success is returned;
\* otherwise (a falsy success, or a TypeError reading it, which is caught)
\* the next path is probed, and after the last one the aggregate failure is
\* returned. results notes, for each probe settled before, whether it
\* reported success.
ProbeSettles(t, o) ==
    /\ calls[t].op = "validateConnection"
    /\ LET res == MakeRequestResult(o)
           i   == Len(calls[t].sent)
       IN  IF ~ReadThrows(res) /\ SuccessTruthy(res)
           THEN Settle(t, o, "resolved", res)
           ELSE IF i < Len(HealthEndpoints)
           THEN /\ Continue(t, BuildRequest("validateConnection", HealthEndpoints[i + 1],
                                            "GET", NoData),
                            [results |-> Append(calls[t].results, SaidSuccess(o))])
                /\ returned' = <<>>
           ELSE Settle(t, o, "resolved", AllFailed)
    /\ trk' = <<>>
    /\ passed' = <<>>
    /\ shown' = CommandShows(returned')
    /\ UNCHANGED <<cfgVars, trackVars, timers>>

\* ------------------------------------------------------------ configuration

\* A step that hands nothing to fetch and settles no operation.
Quiet ==
    lastSent' = <<>> /\ returned' = <<>> /\ trk' = <<>> /\ shown' = <<>> /\ passed' = <<>>

\* api.ts 350-354, called with a non-empty key (part_001 224-226, 799-801).
UpdateApiKey(k) ==
    /\ apiKey' = k
    /\ Quiet
    /\ UNCHANGED <<baseUrl, userId, calls, trackVars, timers>>

\* api.ts 356-360, called with a non-empty id (part_001 811-813).
UpdateUserId(u) ==
    /\ userId' = u
    /\ Quiet
    /\ UNCHANGED <<baseUrl, apiKey, calls, trackVars, timers>>

\* api.ts 362-366, called with a non-empty URL (part_001 786-788).
UpdateBaseUrl(b) ==
    /\ baseUrl' = b
    /\ Quiet
    /\ UNCHANGED <<apiKey, userId, calls, trackVars, timers>>

\* ------------------------------------------------------------ automatic tracking

\* Changes in one document-change event.
MaxChanges == 2

\* part_001 81: an inserted run longer than this may be AI-generated.
AiLikeMinLength == 50

\* part_001 26: the characters of prompt and response the hash keeps.
HashPrefixLength == 100

RECURSIVE Rep(_, _)
Rep(c, n) == IF n = 0 THEN "" ELSE c \o Rep(c, n - 1)

\* The inserted runs tried: 50 characters with a line break, 60 without
\* one, 51 with one, and two runs of 101 with one that differ in their
\* last character only.
TextShortNl == Rep("a", 49) \o "\n"

TextFlat == Rep("a", 60)

TextA == "\n" \o Rep("a", 50)

TextLongX == "\n" \o Rep("c", 99) \o "x"

TextLongY == "\n" \o Rep("c", 99) \o "y"

Texts == {TextShortNl, TextFlat, TextA, TextLongX, TextLongY}

\* String.prototype.substring(0, n)
Substring0(str, n) == SubSeq(str, 1, IF Len(str) < n THEN Len(str) ELSE n)

\* String.prototype.includes, of one character
Includes(str, c) == \E i \in 1 .. Len(str) : SubSeq(str, i, i) = c

\* api.ts 60-62
HasApiKey == Truthy(apiKey)

\* A hash of the whole label and the whole text.
RequestHashWhole(prompt, response) == prompt \o "_" \o response

\* part_001 26
RequestHash(prompt, response) ==
    Substring0(prompt, HashPrefixLength) \o "_" \o Substring0(response, HashPrefixLength)

\* trackAIInteraction leaving the slot as it is when it accepts an event
\* that follows another.
TrackSlotLate(prompt, response) ==
    IF ~automaticTrackingEnabled \/ ~HasApiKey
    THEN [dispatch |-> FALSE, slot |-> lastTrackedRequest]
    ELSE IF lastTrackedRequest = <<RequestHash(prompt, response)>>
    THEN [dispatch |-> FALSE, slot |-> lastTrackedRequest]
    ELSE [dispatch |-> TRUE, slot |-> lastTrackedRequest]

\* trackAIInteraction taking the fingerprint before it looks at the gate.
TrackHashFirst(prompt, response) ==
    IF lastTrackedRequest = <<RequestHash(prompt, response)>>
    THEN [dispatch |-> FALSE, slot |-> lastTrackedRequest]
    ELSE IF ~automaticTrackingEnabled \/ ~HasApiKey
    THEN [dispatch |-> FALSE, slot |-> <<RequestHash(prompt, response)>>]
    ELSE [dispatch |-> TRUE, slot |-> <<RequestHash(prompt, response)>>]

\* trackAIInteraction remembering the first fingerprint it accepts for good.
TrackFirstOnly(prompt, response) ==
    IF ~automaticTrackingEnabled \/ ~HasApiKey
    THEN [dispatch |-> FALSE, slot |-> lastTrackedRequest]
    ELSE IF lastTrackedRequest = <<RequestHash(prompt, response)>>
    THEN [dispatch |-> FALSE, slot |-> lastTrackedRequest]
    ELSE [dispatch |-> TRUE,
          slot |-> IF lastTrackedRequest = <<>>
                   THEN <<RequestHash(prompt, response)>> ELSE lastTrackedRequest]

\* trackAIInteraction without the duplicate check.
TrackUndeduped(prompt, response) ==
    IF ~automaticTrackingEnabled \/ ~HasApiKey
    THEN [dispatch |-> FALSE, slot |-> lastTrackedRequest]
    ELSE [dispatch |-> TRUE, slot |-> <<RequestHash(prompt, response)>>]

\* trackAIInteraction leaving the toggle to its callers.
TrackUntoggled(prompt, response) ==
    IF ~HasApiKey
    THEN [dispatch |-> FALSE, slot |-> lastTrackedRequest]
    ELSE IF lastTrackedRequest = <<RequestHash(prompt, response)>>
    THEN [dispatch |-> FALSE, slot |-> lastTrackedRequest]
    ELSE [dispatch |-> TRUE, slot |-> <<RequestHash(prompt, response)>>]

\* part_001 18-31: trackAIInteraction up to the tracking call: whether
\* track_usage is dispatched, and the value the slot is left with.
TrackAIInteraction(prompt, response) ==
    IF ~automaticTrackingEnabled \/ ~HasApiKey
    THEN [dispatch |-> FALSE, slot |-> lastTrackedRequest]
    ELSE IF lastTrackedRequest = <<RequestHash(prompt, response)>>
    THEN [dispatch |-> FALSE, slot |-> lastTrackedRequest]
    ELSE [dispatch |-> TRUE, slot |-> <<RequestHash(prompt, response)>>]

\* part_001 94-141: what each Cursor command listener hands to the tracker.
CursorCommands ==
    { [command |-> "cursor.ai", prompt |-> "Cursor AI interaction",
       response |-> "AI response generated", model |-> "cursor-small"],
      [command |-> "cursor.autoComplete", prompt |-> "Cursor auto mode",
       response |-> "Auto-completion generated", model |-> "cursor-auto"],
      [command |-> "cursor.inlineSuggest", prompt |-> "Cursor inline suggestion",
       response |-> "Inline suggestion generated", model |-> "cursor-inline"],
      [command |-> "cursor.chat", prompt |-> "Cursor chat interaction",
       response |-> "Chat response generated", model |-> "cursor-chat"],
      [command |-> "cursor.explain", prompt |-> "Cursor explain code",
       response |-> "Code explanation generated", model |-> "cursor-explain"] }

\* part_001 84-88: what the document-change listener hands to the tracker.
DocUsage(text) ==
    [prompt |-> "AI-generated content detected", response |-> text, model |-> "gpt-4o"]

\* A listener that takes a run of 50 characters for AI-generated as well.
AiLikeFromFifty(text) == Len(text) >= AiLikeMinLength /\ Includes(text, "\n")

\* part_001 81
AiLike(text) == Len(text) > AiLikeMinLength /\ Includes(text, "\n")

\* The fingerprints of the tracking calls whose track_usage is awaited.
InFlightHashes ==
    {calls[t].hash : t \in {u \in Slots : calls[u].op = "trackAIInteraction"}}

\* One invocation of trackAIInteraction, as observed: its arguments, the
\* gate inputs and the slot when it was called, the usage last sent before
\* it, the Cursor command noted as invoked last, and what it did.
Invocation(usage, r) ==
    [ prompt   |-> usage.prompt,
      response |-> usage.response,
      enabled  |-> automaticTrackingEnabled,
      apiKey   |-> apiKey,
      before   |-> lastTrackedRequest,
      prior    |-> accepted,
      run      |-> run,
      sent     |-> r.dispatch,
      after    |-> r.slot,
      inflight |-> InFlightHashes ]

\* The run A, A, B, A of the cursor.ai (A) and cursor.chat (B) commands with
\* the gate open, A being the first event ever accepted: A dispatched, A
\* suppressed, B dispatched, A dispatched.
IsA(inv) == inv.prompt = "Cursor AI interaction"

IsB(inv) == inv.prompt = "Cursor chat interaction"

PatternStep(p, inv) ==
    IF p = 0 /\ IsA(inv) /\ inv.sent /\ inv.prior = <<>> THEN 1
    ELSE IF p = 1 /\ IsA(inv) /\ inv.enabled /\ Truthy(inv.apiKey) /\ ~inv.sent THEN 2
    ELSE IF p = 2 /\ IsB(inv) /\ inv.sent THEN 3
    ELSE IF p = 3 /\ IsA(inv) /\ inv.sent THEN 4
    ELSE 0

RECURSIVE PatternRun(_, _)
PatternRun(p, invs) ==
    IF invs = <<>> THEN p ELSE PatternRun(PatternStep(p, Head(invs)), Tail(invs))

\* part_001 18-43, from a command listener or the change loop: the tracker
\* is called with usage; rest are the changes the caller still has to visit.
\* t is the slot of the caller when it is resumed from an await, 0 when
\* the caller has just been invoked.
Track(t, usage, rest, seen) ==
    LET r   == TrackAIInteraction(usage.prompt, usage.response)
        inv == Invocation(usage, r)
        req == BuildRequest("trackUsage", "/cursor/action", "POST", TrackUsageEnvelope(usage))
    IN  /\ r.dispatch
        /\ lastTrackedRequest' = r.slot
        /\ trk' = Append(seen, inv)
        /\ aaba' = PatternRun(aaba, Append(seen, inv))
        /\ accepted' = <<[prompt |-> usage.prompt, response |-> usage.response]>>
        /\ IF t = 0
           THEN Start("trackAIInteraction", req,
                      [rest |-> rest, hash |-> RequestHash(usage.prompt, usage.response)])
           ELSE Again(t, req,
                      [rest |-> rest, hash |-> RequestHash(usage.prompt, usage.response)])

\* The tracker is called and returns without tracking (gate closed or
\* duplicate).
Skip(usage) == ~TrackAIInteraction(usage.prompt, usage.response).dispatch

\* part_001 80-90: the change loop over changes, run until its first await
\* that suspends: the index of the first change that is tracked, 0 if none.
FirstTracked(changes) ==
    LET S == {i \in DOMAIN changes :
                 AiLike(changes[i]) /\ ~Skip(DocUsage(changes[i]))}
    IN  IF S = {} THEN 0 ELSE CHOOSE i \in S : \A j \in S : i <= j

\* The invocations the loop makes that return without tracking, up to the
\* change at index k (all of them, if k = 0).
SkippedBefore(changes, k) ==
    LET n == IF k = 0 THEN Len(changes) ELSE k - 1
        idx == {i \in 1 .. n : AiLike(changes[i])}
        RECURSIVE Build(_)
        Build(i) ==
            IF i > n THEN <<>>
            ELSE IF i \in idx
                 THEN <<Invocation(DocUsage(changes[i]),
                                   TrackAIInteraction("AI-generated content detected", changes[i]))>>
                      \o Build(i + 1)
                 ELSE Build(i + 1)
    IN  Build(1)

\* part_001 81: the changes the loop visits up to the change at index k
\* (all of them, if k = 0) for which the test fails, so that the tracker
\* is not called.
PassedOver(changes, k) ==
    LET n == IF k = 0 THEN Len(changes) ELSE k
        Fails(text) == ~AiLike(text)
    IN  SelectSeq(SubSeq(changes, 1, n), Fails)

\* part_001 80-90: the loop runs over changes (from the start of the
\* listener, t = 0, or resumed in slot t) up to its next suspension or end.
ChangeLoop(t, changes) ==
    LET k    == FirstTracked(changes)
        seen == SkippedBefore(changes, k)
    IN  /\ passed' = PassedOver(changes, k)
        /\ IF k > 0
           THEN Track(t, DocUsage(changes[k]), SubSeq(changes, k + 1, Len(changes)), seen)
           ELSE
             /\ trk' = seen
             /\ aaba' = PatternRun(aaba, seen)
             /\ lastTrackedRequest' =
                    IF seen = <<>> THEN lastTrackedRequest ELSE seen[Len(seen)].after
             /\ UNCHANGED accepted
             /\ IF t = 0
                THEN UNCHANGED calls /\ lastSent' = <<>>
                ELSE calls' = [calls EXCEPT ![t] = Idle] /\ lastSent' = <<>>

\* part_001 72-91: onDidChangeTextDocument. active: there is an active
\* editor and the event is for its document.
DocumentChange(changes, active) ==
    /\ IF ~automaticTrackingEnabled \/ ~active
       THEN /\ trk' = <<>>
            /\ passed' = <<>>
            /\ lastSent' = <<>>
            /\ UNCHANGED <<calls, lastTrackedRequest, accepted, aaba>>
       ELSE ChangeLoop(0, changes)
    /\ returned' = <<>>
    /\ shown' = <<>>
    /\ UNCHANGED <<cfgVars, automaticTrackingEnabled, run, timers>>

\* part_001 94-141: a Cursor command listener.
CursorCommand(c) ==
    /\ LET usage == [prompt |-> c.prompt, response |-> c.response, model |-> c.model]
       IN  IF Skip(usage)
           THEN /\ trk' = <<Invocation(usage, TrackAIInteraction(c.prompt, c.response))>>
                /\ aaba' = PatternRun(aaba, trk')
                /\ lastSent' = <<>>
                /\ lastTrackedRequest' = TrackAIInteraction(c.prompt, c.response).slot
                /\ UNCHANGED <<calls, accepted>>
           ELSE Track(0, usage, <<>>, <<>>)
    /\ passed' = <<>>
    /\ returned' = <<>>
    /\ shown' = <<>>
    /\ UNCHANGED <<cfgVars, automaticTrackingEnabled, timers>>

\* The two builds of the extension's tracker.
Variants == {"part_001", "part_003"}

\* The digits of n < 10^6, padded to six.
Pad6(n) == SubSeq("000000", 1, 6 - Len(ToString(n))) \o ToString(n)

RECURSIVE StripZeros(_)
StripZeros(str) ==
    IF Len(str) > 0 /\ SubSeq(str, Len(str), Len(str)) = "0"
    THEN StripZeros(SubSeq(str, 1, Len(str) - 1))
    ELSE str

\* Number.prototype.toFixed(6)
ToFixed6(x) == ToString(x.micro \div 1000000) \o "." \o Pad6(x.micro % 1000000)

\* A value in a template literal.
TemplateText(r, f) ==
    IF ~Has(r, f) THEN "undefined"
    ELSE IF r[f].type = "string" THEN r[f].value
    ELSE IF r[f].micro % 1000000 = 0 THEN ToString(r[f].micro \div 1000000)
    ELSE ToString(r[f].micro \div 1000000) \o "." \o StripZeros(Pad6(r[f].micro % 1000000))

\* part_001 45-64, part_003 37-55: the try block of trackAIInteraction
\* after the tracking call settled with res: the messages it shows and
\* whether it throws. (The pictograph that opens the message is left out.)
TrackerTry(variant, res) ==
    IF ReadThrows(res) THEN [shown |-> <<>>, threw |-> TRUE]
    ELSE IF ~(SuccessTruthy(res) /\ Has(res, "data")) THEN [shown |-> <<>>, threw |-> FALSE]
    ELSE IF variant = "part_003"
              /\ (~Has(res.data, "cost") \/ res.data.cost.type # "number")
    THEN [shown |-> <<>>, threw |-> TRUE]
    ELSE [shown |-> <<Information(
                        "Tracked: $"
                        \o (IF variant = "part_003" THEN ToFixed6(res.data.cost)
                                                    ELSE TemplateText(res.data, "cost"))
                        \o " (" \o ToString(res.data.tokens) \o " tokens)")>>,
          threw |-> FALSE]

\* A catch block that tells the user.
TrackerCatchTelling(attempt) ==
    [how |-> "resolved", shown |-> <<ErrorMessage("Automatic tracking failed")>>]

\* part_001 65-68: the catch block of trackAIInteraction logs and returns.
TrackerCatch(attempt) == [how |-> "resolved", shown |-> attempt.shown]

\* A tracker that forgets the fingerprint when its tracking call settles
\* and leaves the rest of its caller's loop.
TrackSettlesForgetting(t, o, variant) ==
    /\ calls[t].op = "trackAIInteraction"
    /\ returned' = <<[how |-> "resolved", value |-> MakeRequestResult(o), outcome |-> o,
                      threw |-> FALSE] @@ calls[t]>>
    /\ calls' = [calls EXCEPT ![t] = Idle]
    /\ lastTrackedRequest' = <<>>
    /\ lastSent' = <<>> /\ trk' = <<>> /\ passed' = <<>> /\ shown' = <<>>
    /\ UNCHANGED <<cfgVars, automaticTrackingEnabled, accepted, aaba, run, timers>>

\* part_001 45-68, 80-90: the tracking call of slot t settles; the tracker
\* returns (any error is caught) and its caller goes on: the change loop
\* visits the changes left, a command listener ends.
TrackSettles(t, o, variant) ==
    /\ calls[t].op = "trackAIInteraction"
    /\ LET attempt == TrackerTry(variant, MakeRequestResult(o))
           ended   == IF attempt.threw THEN TrackerCatch(attempt)
                                       ELSE [how |-> "resolved", shown |-> attempt.shown]
       IN  /\ returned' = <<[how |-> ended.how, value |-> MakeRequestResult(o), outcome |-> o,
                             threw |-> attempt.threw] @@ calls[t]>>
           /\ shown' = ended.shown
    /\ ChangeLoop(t, calls[t].rest)
    /\ UNCHANGED <<cfgVars, automaticTrackingEnabled, run, timers>>

\* part_001 765-772
ToggleAutomaticTracking ==
    /\ automaticTrackingEnabled' = ~automaticTrackingEnabled
    /\ shown' = <<Information("Automatic usage tracking "
                               \o (IF automaticTrackingEnabled' THEN "enabled" ELSE "disabled"))>>
    /\ lastSent' = <<>>
    /\ returned' = <<>>
    /\ trk' = <<>>
    /\ passed' = <<>>
    /\ UNCHANGED <<cfgVars, calls, lastTrackedRequest, accepted, aaba, run, timers>>

\* ------------------------------------------------------------ commands

\* part_001 163, 474, 848: what a command shows before it calls the backend.
Announce(name) ==
    CASE name = "connect-account" -> <<Information("Generating magic link...")>>
      [] name = "show-analytics"  -> <<Information("Loading analytics...")>>
      [] name = "health-check"    -> <<Information("Checking API health...")>>
      [] OTHER                    -> <<>>

SingleOpCommands ==
    {c \in Commands : c.op \in SingleOps /\ c.command # "track-usage"}

\* part_001 371-720: optimize-prompt, show-analytics, setup-workspace,
\* get-suggestions, analyze-code, with their inputs given: the command
\* calls its operation and awaits it.
RunCommand(cmd) ==
    /\ cmd \in SingleOpCommands
    /\ Start("makeRequest", BuildRequest(cmd.op, "/cursor/action", "POST", Envelope(cmd.op)),
             [command |-> cmd.command])
    /\ shown' = Announce(cmd.command)
    /\ returned' = <<>>
    /\ trk' = <<>>
    /\ passed' = <<>>
    /\ UNCHANGED <<cfgVars, trackVars, timers>>

\* part_001 146-166: connect-account with the email entered.
ConnectAccountCommand(email) ==
    /\ Start("generateMagicLink",
             BuildRequest("generateMagicLink", "/cursor/action", "POST", MagicLinkEnvelope(email)),
             [email |-> email, command |-> "connect-account"])
    /\ shown' = Announce("connect-account")
    /\ returned' = <<>>
    /\ trk' = <<>>
    /\ passed' = <<>>
    /\ UNCHANGED <<cfgVars, trackVars, timers>>

\* part_001 845-850: health-check.
HealthCheckCommand ==
    /\ Start("validateConnection",
             BuildRequest("validateConnection", HealthEndpoints[1], "GET", NoData),
             [results |-> <<>>, command |-> "health-check"])
    /\ shown' = Announce("health-check")
    /\ returned' = <<>>
    /\ trk' = <<>>
    /\ passed' = <<>>
    /\ UNCHANGED <<cfgVars, trackVars, timers>>

\* What the user does with the 'API key not configured' message.
KeyAnswers == {"Connect Account", "Configure Manually", "dismissed"}

\* part_001 202-240: track-usage up to its input boxes. Without a key it
\* shows an error with two choices: 'Connect Account' starts that command
\* and goes on, 'Configure Manually' takes a key (typed) and goes on if one
\* was given, anything else ends the command; then it ends with an error
\* if there is no active editor. The dialog is answered within the step.
TrackUsageCommand(answer, typed, editor) ==
    LET asked   == ~HasApiKey
        keyed   == asked /\ answer = "Configure Manually" /\ Truthy(typed)
        goesOn  == ~asked \/ answer = "Connect Account" \/ keyed
        notices == (IF asked
                    THEN <<ErrorMessage("API key not configured. Please connect your account first.")>>
                    ELSE <<>>)
                   \o (IF keyed THEN <<Information("API key configured successfully!")>> ELSE <<>>)
                   \o (IF goesOn /\ ~editor THEN <<ErrorMessage("No active editor found")>>
                       ELSE <<>>)
    IN  /\ FreeSlots # {}
        /\ apiKey' = IF keyed THEN typed ELSE apiKey
        /\ shown' = notices
        /\ calls' = IF goesOn /\ editor
                    THEN [calls EXCEPT ![CHOOSE t \in FreeSlots : \A u \in FreeSlots : t <= u] =
                             [op |-> "trackUsageCommand", command |-> "track-usage"]]
                    ELSE calls
        /\ lastSent' = <<>>
        /\ returned' = <<>>
        /\ trk' = <<>>
        /\ passed' = <<>>
        /\ UNCHANGED <<baseUrl, userId, trackVars, timers>>

\* part_001 242-334: track-usage after its input boxes: with prompt,
\* response and model given it calls trackUsage and awaits it; with one of
\* them missing it ends.
TrackUsageDispatch(t, given) ==
    /\ calls[t].op = "trackUsageCommand"
    /\ IF given
       THEN LET req == BuildRequest("trackUsage", "/cursor/action", "POST", Envelope("trackUsage"))
            IN  /\ calls' = [calls EXCEPT ![t] =
                               [op |-> "makeRequest", sent |-> <<Wire(req)>>,
                                builtWith |-> baseUrl, command |-> "track-usage"]]
                /\ lastSent' = <<req>>
       ELSE /\ calls' = [calls EXCEPT ![t] = Idle]
            /\ lastSent' = <<>>
    /\ shown' = <<>>
    /\ returned' = <<>>
    /\ trk' = <<>>
    /\ passed' = <<>>
    /\ UNCHANGED <<cfgVars, trackVars, timers>>

\* What the user leaves in an input box of the configure command: nothing
\* (the box is cancelled), the empty string, or a value.
UrlInputs == {Undefined, "", "https://example.test/api"}

KeyInputs == {Undefined, "", "k2"}

UserIdInputs == {Undefined, "", "u2"}

\* A configure command that stores whatever its input boxes return.
ConfigureStoringAll(url, key, id) ==
    /\ baseUrl' = url
    /\ apiKey' = key
    /\ userId' = id
    /\ shown' = <<Information("Configuration updated successfully!")>>
    /\ lastSent' = <<>>
    /\ returned' = <<>>
    /\ trk' = <<>>
    /\ passed' = <<>>
    /\ UNCHANGED <<calls, trackVars, timers>>

\* part_001 775-816, api.ts 350-366: the configure command with its three
\* input boxes answered: each value given is stored by its update method,
\* a box cancelled or left empty stores nothing.
ConfigureExtensionCommand(url, key, id) ==
    /\ baseUrl' = IF Truthy(url) THEN url ELSE baseUrl
    /\ apiKey' = IF Truthy(key) THEN key ELSE apiKey
    /\ userId' = IF Truthy(id) THEN id ELSE userId
    /\ shown' = <<Information("Configuration updated successfully!")>>
    /\ lastSent' = <<>>
    /\ returned' = <<>>
    /\ trk' = <<>>
    /\ passed' = <<>>
    /\ UNCHANGED <<calls, trackVars, timers>>

\* ------------------------------------------------------------ polling

MaxTimers == 1

\* api.ts 396: the period of the poll, in milliseconds.
PollIntervalMs == 60000

\* api.ts 236-241: the data of an analytics answer.
AnalyticsData == [summary |-> [budget_used |-> JsString("45%")]]

\* api.ts 382-397, part_001 887: startRealTimeTracking sets the interval
\* timer and returns.
StartRealTimeTracking ==
    /\ Len(timers) < MaxTimers
    /\ timers' = Append(timers, PollIntervalMs)
    /\ Quiet
    /\ UNCHANGED <<cfgVars, calls, trackVars>>

\* A timer whose callback polls only with a key and with automatic
\* tracking on.
PollTickGated(i) ==
    /\ i \in DOMAIN timers
    /\ HasApiKey /\ automaticTrackingEnabled
    /\ LET req == BuildRequest("getAnalytics", "/cursor/action", "POST", Envelope("getAnalytics"))
       IN  IF FreeSlots # {}
           THEN Start("poll", req, [timer |-> i])
           ELSE lastSent' = <<req>> /\ UNCHANGED calls
    /\ returned' = <<>>
    /\ trk' = <<>>
    /\ passed' = <<>>
    /\ shown' = <<>>
    /\ UNCHANGED <<cfgVars, trackVars, timers>>

\* A timer whose callback waits for the poll before it to end.
PollTickExclusive(i) ==
    /\ i \in DOMAIN timers
    /\ \A t \in Slots : calls[t].op # "poll"
    /\ Start("poll",
             BuildRequest("getAnalytics", "/cursor/action", "POST", Envelope("getAnalytics")),
             [timer |-> i])
    /\ returned' = <<>>
    /\ trk' = <<>>
    /\ passed' = <<>>
    /\ shown' = <<>>
    /\ UNCHANGED <<cfgVars, trackVars, timers>>

\* api.ts 384-386: timer i fires; its callback calls getAnalytics, whose
\* request goes out. When no slot is free the request goes out all the
\* same and its answer is not followed.
PollTick(i) ==
    /\ i \in DOMAIN timers
    /\ LET req == BuildRequest("getAnalytics", "/cursor/action", "POST", Envelope("getAnalytics"))
       IN  IF FreeSlots # {}
           THEN Start("poll", req, [timer |-> i])
           ELSE lastSent' = <<req>> /\ UNCHANGED calls
    /\ returned' = <<>>
    /\ trk' = <<>>
    /\ passed' = <<>>
    /\ shown' = <<>>
    /\ UNCHANGED <<cfgVars, trackVars, timers>>

\* api.ts 385-393: the try block of the callback after getAnalytics settled
\* with res. (The pictograph that opens the message is left out.)
PollTry(res) ==
    IF ReadThrows(res) THEN [shown |-> <<>>, threw |-> TRUE]
    ELSE IF ~(SuccessTruthy(res) /\ Has(res, "data")) THEN [shown |-> <<>>, threw |-> FALSE]
    ELSE IF ~Has(res.data, "summary") THEN [shown |-> <<>>, threw |-> TRUE]
    ELSE [shown |-> <<Information("Cost Katana Status: "
                                  \o TemplateText(res.data.summary, "budget_used")
                                  \o " budget used")>>,
          threw |-> FALSE]

\* A poll that stops its timer when it fails.
PollSettlesStopping(t, o) ==
    /\ calls[t].op = "poll"
    /\ LET res == MakeRequestResult(o)
       IN  /\ Settle(t, o, "resolved", res)
           /\ shown' = PollTry(res).shown
           /\ timers' = IF PollTry(res).shown = <<>> THEN <<>> ELSE timers
    /\ trk' = <<>>
    /\ passed' = <<>>
    /\ UNCHANGED <<cfgVars, trackVars>>

\* api.ts 385-396: the getAnalytics call of a tick settles; the callback
\* shows the status or, on any error, ends silently. The timer stays set.
PollSettles(t, o) ==
    /\ calls[t].op = "poll"
    /\ LET res == MakeRequestResult(o)
       IN  /\ Settle(t, o, "resolved", res)
           /\ shown' = PollTry(res).shown
    /\ trk' = <<>>
    /\ passed' = <<>>
    /\ UNCHANGED <<cfgVars, trackVars, timers>>

\* ------------------------------------------------------------ specification

\* api.ts 64-75: the constructor reads the host's configuration.
Init ==
    /\ baseUrl \in BaseUrls
    /\ apiKey \in {Undefined, "", "k1"}
    /\ userId \in {Undefined, "u1"}
    /\ calls = [t \in Slots |-> Idle]
    /\ lastSent = <<>>
    /\ returned = <<>>
    /\ automaticTrackingEnabled = TRUE
    /\ lastTrackedRequest = <<>>
    /\ trk = <<>>
    /\ accepted = <<>>
    /\ aaba = 0
    /\ run = <<>>
    /\ timers = <<>>
    /\ shown = <<>>
    /\ passed = <<>>

Next ==
    \/ \E op \in SingleOps : CatalogCall(op)
    \/ \E t \in Slots, o \in Outcomes : CatalogReturn(t, o)
    \/ GetPricingUpdates
    \/ \E e \in Emails : GenerateMagicLink(e)
    \/ \E t \in Slots, o \in Outcomes : MagicLinkFirst(t, o)
    \/ \E t \in Slots, o \in Outcomes : MagicLinkSecond(t, o)
    \/ ValidateConnection
    \/ \E t \in Slots, o \in Outcomes : ProbeSettles(t, o)
    \/ \E k \in ApiKeys : UpdateApiKey(k)
    \/ \E u \in UserIds : UpdateUserId(u)
    \/ \E b \in BaseUrls : UpdateBaseUrl(b)

Spec == Init /\ [][Next]_vars

\* The contentChanges of a document-change event: one run of any kind, or
\* 2 .. MaxChanges runs that may be AI-generated.
ChangeLists ==
    {<<a>> : a \in Texts}
    \cup UNION {[1 .. n -> {TextA, TextLongX}] : n \in 2 .. MaxChanges}

\* The tracker is studied under one backend and one user.
InitTrack ==
    /\ Init
    /\ baseUrl = DefaultBaseUrl
    /\ userId = "u1"

\* How a tracking call is let to settle: fetch rejects, an error status
\* with a failure body, and a 2xx status with null, a failure, a success
\* without data and a success with data (cost a string, a number, missing).
TrackOutcomes ==
    {o \in Outcomes :
        \/ o.kind = "reject" /\ o.fetchTypeError
        \/ o.kind = "response" /\ o.status = 500 /\ o.body = Obj("false", FALSE, TRUE, FALSE)
        \/ o.kind = "response" /\ o.status = 200
              /\ o.body \in {Null, Obj("false", FALSE, TRUE, FALSE),
                             Obj("true", FALSE, FALSE, FALSE), Obj("true", TRUE, FALSE, FALSE)}}
    \cup {[kind |-> "response", status |-> 200, body |-> [success |-> TRUE, data |-> d]] :
             d \in {NumericData, PartialData}}

\* The outcomes with a result of success true and data: those for which the
\* two builds differ (part_001 49, part_003 40).
DataOutcomes ==
    {o \in TrackOutcomes :
        /\ o.kind = "response"
        /\ o.status = 200
        /\ o.body # Null
        /\ "data" \in DOMAIN o.body}

\* The automatic tracking: the listeners, the toggle command, the key being
\* configured, and the tracking calls settling (in either build where the
\* builds differ).
NextTrack ==
    \/ \E ch \in ChangeLists : DocumentChange(ch, TRUE)
    \/ DocumentChange(<<TextA>>, FALSE)
    \/ \E c \in CursorCommands : CursorCommand(c) /\ UNCHANGED run
    \/ \E t \in Slots, o \in TrackOutcomes : TrackSettles(t, o, "part_001")
    \/ \E t \in Slots, o \in DataOutcomes : TrackSettles(t, o, "part_003")
    \/ ToggleAutomaticTracking
    \/ UpdateApiKey("k1")

SpecTrack == InitTrack /\ [][NextTrack]_vars

\* How a poll's getAnalytics is let to settle: fetch rejects, an error
\* status, and a 2xx status with null, a failure, a success without data,
\* a success whose data has no summary, and a success with a summary.
PollOutcomes ==
    {o \in Outcomes :
        \/ o.kind = "reject"
        \/ o.kind = "response" /\ o.status = 500 /\ o.body = Obj("false", FALSE, TRUE, FALSE)
        \/ o.kind = "response" /\ o.status = 200
              /\ o.body \in {Null, Obj("false", FALSE, TRUE, FALSE),
                             Obj("true", FALSE, FALSE, FALSE), Obj("true", TRUE, FALSE, FALSE)}}
    \cup {[kind |-> "response", status |-> 200,
           body |-> [success |-> TRUE, data |-> AnalyticsData]]}

\* The poller: it is started, its timers fire, its calls settle, and the
\* configuration and the toggle are changed meanwhile.
NextPoll ==
    \/ StartRealTimeTracking
    \/ ToggleAutomaticTracking
    \/ \E i \in 1 .. MaxTimers : PollTick(i)
    \/ \E t \in Slots, o \in PollOutcomes : PollSettles(t, o)
    \/ \E k \in ApiKeys : UpdateApiKey(k)
    \/ \E u \in UserIds : UpdateUserId(u)
    \/ \E b \in BaseUrls : UpdateBaseUrl(b)

\* setInterval keeps firing a timer that is set.
SpecPoll == Init /\ [][NextPoll]_vars /\ WF_vars(\E i \in 1 .. MaxTimers : PollTick(i))

\* The commands: they are run, and the operations they await settle.
NextCmd ==
    \/ \E cmd \in SingleOpCommands : RunCommand(cmd)
    \/ \E e \in Emails : ConnectAccountCommand(e)
    \/ HealthCheckCommand
    \/ \E a \in KeyAnswers, k \in {"", "k2"}, ed \in BOOLEAN : TrackUsageCommand(a, k, ed)
    \/ \E t \in Slots, g \in BOOLEAN : TrackUsageDispatch(t, g)
    \/ \E t \in Slots, o \in Outcomes : CatalogReturn(t, o)
    \/ \E t \in Slots, o \in Outcomes : MagicLinkFirst(t, o)
    \/ \E t \in Slots, o \in Outcomes : MagicLinkSecond(t, o)
    \/ \E t \in Slots, o \in Outcomes : ProbeSettles(t, o)

SpecCmd == Init /\ [][NextCmd]_vars

\* How a call of a command is let to settle where the configuration is
\* studied: fetch rejects, or a 2xx status with a success with data.
CfgOutcomes ==
    {o \in Outcomes :
        \/ o.kind = "reject" /\ o.fetchTypeError
        \/ o.kind = "response" /\ o.status = 200 /\ o.body = Obj("true", TRUE, FALSE, FALSE)}

\* The commands that touch the configuration or the toggle, and the calls
\* they await settling.
NextCfg ==
    \/ \E u \in UrlInputs, k \in KeyInputs, i \in UserIdInputs : ConfigureExtensionCommand(u, k, i)
    \/ \E a \in KeyAnswers, k \in {"", "k2"}, ed \in BOOLEAN : TrackUsageCommand(a, k, ed)
    \/ \E t \in Slots, g \in BOOLEAN : TrackUsageDispatch(t, g)
    \/ \E e \in Emails : ConnectAccountCommand(e)
    \/ ToggleAutomaticTracking
    \/ \E t \in Slots, o \in CfgOutcomes : CatalogReturn(t, o)
    \/ \E t \in Slots, o \in CfgOutcomes : MagicLinkFirst(t, o)
    \/ \E t \in Slots, o \in CfgOutcomes : MagicLinkSecond(t, o)

SpecCfg == Init /\ [][NextCfg]_vars

\* How a tracking call of a Cursor command is let to settle: fetch rejects,
\* or a 2xx status with a success with data.
CursorOutcomes ==
    {o \in Outcomes :
        \/ o.kind = "reject" /\ o.fetchTypeError
        \/ o.kind = "response" /\ o.status = 200 /\ o.body = Obj("true", TRUE, FALSE, FALSE)}

\* The Cursor command listeners alone: the commands are invoked (the label
\* of the command invoked last is noted), the toggle command is run, the
\* key is configured, and the tracking calls settle.
NextCursor ==
    \/ \E c \in CursorCommands : CursorCommand(c) /\ run' = <<c.prompt>>
    \/ \E t \in Slots, o \in CursorOutcomes : TrackSettles(t, o, "part_001")
    \/ ToggleAutomaticTracking
    \/ UpdateApiKey("k1")

SpecCursor == InitTrack /\ [][NextCursor]_vars

\* The health probes alone, under one backend and one user: validateConnection
\* is called, by the health-check command or otherwise, and its probes settle.
InitHealth ==
    /\ Init
    /\ baseUrl = DefaultBaseUrl
    /\ userId = "u1"

NextHealth ==
    \/ ValidateConnection
    \/ HealthCheckCommand
    \/ \E t \in Slots, o \in Outcomes : ProbeSettles(t, o)

SpecHealth == InitHealth /\ [][NextHealth]_vars

\* ------------------------------------------------------------ properties

IsObject(v) == v # Null

\* An APIResponse: an object with its required field success.
IsAPIResponse(v) == IsObject(v) /\ Has(v, "success")

\* C1: makeRequest, and so every catalog operation, never rejects: whatever
\* fetch does, the operation's promise resolves with an APIResponse value.
C1_NeverRejects ==
    \A i \in DOMAIN returned :
        returned[i].how = "resolved" /\ IsAPIResponse(returned[i].value)

\* C2: in every APIResponse returned to a caller, success is true iff data
\* is present iff error is absent.
C2_SuccessIffDataIffNoError ==
    \A i \in DOMAIN returned :
        LET v == returned[i].value IN
        (returned[i].how = "resolved" /\ IsObject(v)) =>
            /\ (Has(v, "success") /\ v.success) <=> Has(v, "data")
            /\ Has(v, "data") <=> ~Has(v, "error")

\* C3: a request carries an Authorization header iff an API key is
\* configured when it is dispatched, and then its value is "Bearer "
\* followed by the configured key.
C3_AuthorizationIffKey ==
    \A i \in DOMAIN lastSent :
        LET h == lastSent[i].headers IN
        /\ Has(h, "Authorization") <=> (apiKey # Undefined /\ apiKey # "")
        /\ Has(h, "Authorization") => h.Authorization = "Bearer " \o apiKey

\* C3 happens: a request goes out under a key set by updateApiKey.
C3_Witness ==
    /\ lastSent # <<>>
    /\ apiKey = "k2"
    /\ Has(lastSent[1].headers, "Authorization")
    /\ lastSent[1].headers.Authorization = "Bearer k2"

ActionTag(op) ==
    CASE op = "generateMagicLink" -> "generate_magic_link"
      [] op = "trackUsage"        -> "track_usage"
      [] op = "optimizePrompt"    -> "optimize_prompt"
      [] op = "getAnalytics"      -> "get_analytics"
      [] op = "setupWorkspace"    -> "workspace_setup"
      [] op = "getSuggestions"    -> "get_suggestions"
      [] op = "analyzeCode"       -> "analyze_code"
      [] op = "getProjects"       -> "get_projects"
      [] op = "createProject"     -> "create_project"
      [] OTHER                    -> "none"

IsDispatch(r) ==
    /\ r.method = "POST"
    /\ r.url = baseUrl \o "/cursor/action"
    /\ r.body # NoData
    /\ Has(r.body, "action")
    /\ r.body.action = ActionTag(r.op)

IsHealthProbe(r) ==
    /\ r.op = "validateConnection"
    /\ r.method = "GET"
    /\ r.url \in {baseUrl \o "/cursor/health", baseUrl \o "/health", baseUrl \o "/api/health"}
    /\ r.body = NoData

IsPricingRead(r) ==
    /\ r.op = "getPricingUpdates"
    /\ r.method = "GET"
    /\ r.url = baseUrl \o "/pricing/updates"
    /\ r.body = NoData

IsMagicLinkFallback(r) ==
    /\ r.op = "generateMagicLink"
    /\ r.method = "POST"
    /\ r.url = baseUrl \o "/auth/magic-link"
    /\ r.body # NoData
    /\ DOMAIN r.body = {"email"}

\* C5 as claimed: every request of the catalog is a POST to
\* {baseUrl}/cursor/action carrying its operation's action tag, or a GET of
\* a health path, or a GET of the pricing path; no other path is requested.
C5_OneEndpointTwoExceptions ==
    \A i \in DOMAIN lastSent :
        IsDispatch(lastSent[i]) \/ IsHealthProbe(lastSent[i]) \/ IsPricingRead(lastSent[i])

\* C5 amended: every request of the catalog is a POST to
\* {baseUrl}/cursor/action carrying its operation's action tag, with three
\* exceptions: the GET of a health path, the GET of the pricing path, and
\* the POST of the e-mail to /auth/magic-link that generateMagicLink falls
\* back to; no other path is requested.
C5_OneEndpointThreeExceptions ==
    \A i \in DOMAIN lastSent :
        \/ IsDispatch(lastSent[i])
        \/ IsHealthProbe(lastSent[i])
        \/ IsPricingRead(lastSent[i])
        \/ IsMagicLinkFallback(lastSent[i])

\* C5 happens: the fallback request goes out.
C5_Witness ==
    /\ lastSent # <<>>
    /\ IsMagicLinkFallback(lastSent[1])
    /\ lastSent[1].url = "https://example.test/api/auth/magic-link"

PendingOrSettled(op) ==
    {calls[t] : t \in {u \in Slots : calls[u].op = op}}
    \cup {returned[i] : i \in {j \in DOMAIN returned : returned[j].op = op}}

Settled(op) == {returned[i] : i \in {j \in DOMAIN returned : returned[j].op = op}}

HealthOrder == <<"/cursor/health", "/health", "/api/health">>

\* C6: validateConnection probes /cursor/health, /health, /api/health in
\* this order, each only after every earlier probe has reported failure,
\* and returns the result of the first probe that reports success without
\* probing further.
C6_ProbesInOrderFirstSuccessReturned ==
    /\ \A c \in PendingOrSettled("validateConnection") :
          /\ Len(c.sent) <= 3
          /\ \A k \in DOMAIN c.sent :
                c.sent[k] = [endpoint |-> HealthOrder[k], method |-> "GET"]
          /\ Len(c.results) = Len(c.sent) - 1
          /\ \A k \in DOMAIN c.results : ~c.results[k]
    /\ \A c \in Settled("validateConnection") :
          LET last == MakeRequestResult(c.outcome) IN
          (IsObject(last) /\ Has(last, "success") /\ last.success) =>
              c.how = "resolved" /\ c.value = last

\* C6 happens: /cursor/health fails, /health succeeds and is returned;
\* /api/health is not requested.
C6_Witness ==
    \E c \in Settled("validateConnection") :
        /\ Len(c.sent) = 2
        /\ c.sent[2].endpoint = "/health"
        /\ c.value = Obj("true", TRUE, FALSE, FALSE)

\* C7: when all three probes fail, validateConnection ends after exactly
\* three requests with {success: false, error: 'All health check endpoints
\* failed'}, whatever the errors of the probes were.
C7_AllFailAggregate ==
    \A c \in Settled("validateConnection") :
        LET last == MakeRequestResult(c.outcome) IN
        ~(IsObject(last) /\ Has(last, "success") /\ last.success) =>
            /\ Len(c.sent) = 3
            /\ c.how = "resolved"
            /\ c.value = [success |-> FALSE, error |-> "All health check endpoints failed"]

\* C7 happens: the third probe fails with an error text of its own.
C7_Witness ==
    \E c \in Settled("validateConnection") :
        /\ Len(c.sent) = 3
        /\ c.outcome.kind = "response"
        /\ c.outcome.status = 500
        /\ c.outcome.body = Obj("false", FALSE, TRUE, TRUE)
        /\ c.value.error = "All health check endpoints failed"

\* C8: generateMagicLink POSTs generate_magic_link to /cursor/action; a
\* first result with success true is returned and nothing more is requested;
\* a first result reporting failure makes it POST the same email to
\* /auth/magic-link once, and that result is the final one. There are
\* never more than two requests.
C8_MagicLinkFallbackOnce ==
    /\ \A c \in PendingOrSettled("generateMagicLink") :
          /\ Len(c.sent) \in {1, 2}
          /\ c.sent[1] = [endpoint |-> "/cursor/action", method |-> "POST"]
          /\ Len(c.sent) = 2 =>
                /\ c.sent[2] = [endpoint |-> "/auth/magic-link", method |-> "POST"]
                /\ ~c.first
    /\ \A i \in DOMAIN lastSent :
          lastSent[i].op = "generateMagicLink" =>
              \E t \in Slots :
                  /\ calls[t].op = "generateMagicLink"
                  /\ lastSent[i].endpoint = calls[t].sent[Len(calls[t].sent)].endpoint
                  /\ lastSent[i].body =
                        IF Len(calls[t].sent) = 1
                        THEN [action |-> "generate_magic_link", email |-> calls[t].email]
                        ELSE [email |-> calls[t].email]
    /\ \A c \in Settled("generateMagicLink") :
          LET last == MakeRequestResult(c.outcome) IN
          /\ (Len(c.sent) = 1 /\ IsObject(last)) =>
                 /\ Has(last, "success") /\ last.success
                 /\ c.how = "resolved" /\ c.value = last
          /\ Len(c.sent) = 2 => c.how = "resolved" /\ c.value = last

\* C8 happens: the first attempt fails, the fallback fails too, and the
\* fallback's failure is the result.
C8_Witness ==
    \E c \in Settled("generateMagicLink") :
        /\ Len(c.sent) = 2
        /\ c.outcome.kind = "response" /\ c.outcome.status = 500
        /\ c.value = [success |-> FALSE, error |-> "HTTP 500: Internal Server Error",
                      message |-> "Request failed"]

GateClosed == ~automaticTrackingEnabled \/ apiKey = Undefined \/ apiKey = ""

\* C9: from a state where automatic tracking is disabled or no API key is
\* configured, no step (an event of the change listener or of a Cursor
\* command among them) sends a request or changes lastTrackedRequest.
C9_GateFirst ==
    [][GateClosed => (lastSent' = <<>> /\ lastTrackedRequest' = lastTrackedRequest)]_vars

\* C9 happens: the tracker is invoked with the gate closed while the slot
\* holds a fingerprint, and the slot still holds it.
C9_Witness ==
    /\ trk # <<>>
    /\ ~trk[1].enabled \/ ~Truthy(trk[1].apiKey)
    /\ trk[1].before # <<>>
    /\ lastTrackedRequest = trk[1].before
    /\ lastSent = <<>>

\* The fingerprint of a usage: the first 100 characters of its label and of
\* its text.
Fingerprint(u) == <<Substring0(u.prompt, 100), Substring0(u.response, 100)>>

\* C10: an ungated invocation of the tracker dispatches track_usage iff its
\* fingerprint differs from that of the most recently accepted one (there
\* being none counts as differing).
C10_DedupDepthOne ==
    /\ \A i \in DOMAIN trk :
          (trk[i].enabled /\ Truthy(trk[i].apiKey)) =>
              (trk[i].sent <=>
                  (trk[i].prior = <<>> \/ Fingerprint(trk[i].prior[1]) # Fingerprint(trk[i])))
    /\ \A i \in DOMAIN trk : trk[i].sent => i = Len(trk)
    /\ (trk # <<>> /\ trk[Len(trk)].sent) <=>
          (lastSent # <<>> /\ lastSent[1].op = "trackUsage")
    /\ \A i \in DOMAIN lastSent :
          lastSent[i].op = "trackUsage" =>
              /\ lastSent[i].data.ai_request.prompt = trk[Len(trk)].prompt
              /\ lastSent[i].data.ai_request.response = trk[Len(trk)].response

\* C10 happens: in the run A, A, B, A the first A, B and the last A were
\* dispatched and the second A was suppressed.
C10_Witness == aaba = 4
GateOpen(inv) == inv.enabled /\ inv.apiKey # Undefined /\ inv.apiKey # ""

\* The fingerprint of a usage as one string.
FingerprintText(u) ==
    Substring0(u.prompt, 100) \o "_" \o Substring0(u.response, 100)

PollFailed ==
    /\ returned # <<>>
    /\ returned[1].op = "poll"
    /\ shown = <<>>

PollSent ==
    /\ lastSent # <<>>
    /\ lastSent[1].method = "POST"
    /\ lastSent[1].url = baseUrl \o "/cursor/action"
    /\ lastSent[1].body.action = "get_analytics"

\* C12: once startRealTimeTracking has set its timer, the timer stays set
\* with its period of 60000 ms, every step that fires it dispatches a
\* get_analytics read, and after a tick that failed (its call rejected,
\* answered success false, or answered without the summary) a tick
\* eventually fires again.
C12_TicksGoOn ==
    /\ [][timers # <<>> => (Len(timers') >= Len(timers)
                             /\ \A i \in DOMAIN timers : timers'[i] = 60000)]_vars
    /\ [][(\E i \in DOMAIN timers : PollTick(i)) => PollSent']_vars
    /\ [](timers # <<>> => ENABLED (\E i \in DOMAIN timers : PollTick(i)))
    /\ PollFailed ~> PollSent

\* C12 happens: a tick's call is answered with success and data that lack
\* the summary; nothing is shown and the timer is still set.
C12_Witness ==
    /\ PollFailed
    /\ returned[1].outcome.kind = "response"
    /\ returned[1].outcome.status = 200
    /\ returned[1].outcome.body = Obj("true", TRUE, FALSE, FALSE)
    /\ timers = <<60000>>

\* C13: a configuration update made while a request is in flight does not
\* show in that request's result: the base URL named in the error of a
\* connection failure is the one the request was built with.
C13_ResultNamesUrlOfRequest ==
    \A i \in DOMAIN returned :
        (returned[i].outcome.kind = "reject" /\ returned[i].outcome.fetchTypeError) =>
            returned[i].value.error =
                "Cannot connect to backend server. Please check if the backend URL is correct: "
                \o returned[i].builtWith

\* k is n / 4 rounded up.
IsCeilOfQuarter(k, n) == 4 * k >= n /\ 4 * (k - 1) < n

TokensOf(p, r) ==
    TrackUsageEnvelope([prompt |-> p, response |-> r, model |-> "gpt-4o"]).ai_request.tokens_used

\* C14: in every track_usage envelope prompt_tokens is the prompt's length
\* over 4 rounded up, completion_tokens the response's length over 4 rounded
\* up, and total_tokens their sum; lengths 5 and 8 give 2 + 2 = 4 and
\* lengths 20 and 20 give 10.
C14_TokenEstimate ==
    /\ \A i \in DOMAIN lastSent :
          lastSent[i].op = "trackUsage" =>
              LET a == lastSent[i].body.ai_request
                  u == a.tokens_used
              IN  /\ IsCeilOfQuarter(u.prompt_tokens, Len(a.prompt))
                  /\ IsCeilOfQuarter(u.completion_tokens, Len(a.response))
                  /\ u.total_tokens = u.prompt_tokens + u.completion_tokens
    /\ TokensOf("Hello", "Hi there") =
          [prompt_tokens |-> 2, completion_tokens |-> 2, total_tokens |-> 4]
    /\ TokensOf("aaaaaaaaaaaaaaaaaaaa", "bbbbbbbbbbbbbbbbbbbb").total_tokens = 10

\* C14 happens: a label of 29 characters and a text of 51 are tracked as
\* 8 + 13 = 21 tokens, where the 80 characters together would give 20.
C14_Witness ==
    /\ lastSent # <<>>
    /\ lastSent[1].op = "trackUsage"
    /\ Len(lastSent[1].body.ai_request.prompt) = 29
    /\ Len(lastSent[1].body.ai_request.response) = 51
    /\ lastSent[1].body.ai_request.tokens_used =
          [prompt_tokens |-> 8, completion_tokens |-> 13, total_tokens |-> 21]

EndsWith(str, suffix) ==
    /\ Len(str) >= Len(suffix)
    /\ SubSeq(str, Len(str) - Len(suffix) + 1, Len(str)) = suffix

\* The results of makeRequest itself: those of the single-request operations.
MakeRequestReturns == Settled("makeRequest")

\* C15: when the fetch of a request fails, makeRequest returns success
\* false, an error text naming the base URL, and the message 'Network error
\* occurred'.
C15_TransportFailureResult ==
    \A c \in MakeRequestReturns :
        c.outcome.kind = "reject" =>
            /\ c.how = "resolved"
            /\ c.value.success = FALSE
            /\ \E b \in BaseUrls : EndsWith(c.value.error, b)
            /\ c.value.message = "Network error occurred"

ServerProvided(body, f) ==
    /\ body \notin {Null, NonJson}
    /\ f \in DOMAIN body

\* C16: for an answer with an error status, whatever its body, makeRequest
\* returns success false, error the server's error if there is one and else
\* 'HTTP <status>: <statusText>', message the server's message if there is
\* one and else 'Request failed'.
C16_ErrorStatusResult ==
    \A c \in MakeRequestReturns :
        (c.outcome.kind = "response" /\ c.outcome.status >= 400) =>
            /\ c.how = "resolved"
            /\ c.value.success = FALSE
            /\ c.value.error =
                  IF ServerProvided(c.outcome.body, "error") THEN c.outcome.body.error
                  ELSE "HTTP 500: Internal Server Error"
            /\ c.value.message =
                  IF ServerProvided(c.outcome.body, "message") THEN c.outcome.body.message
                  ELSE "Request failed"

Malformed(body) == body \in {Null, NonJson} \/ "success" \notin DOMAIN body

\* C17: a malformed answer (not JSON, null, or an object without success),
\* whatever its status, becomes a failure result with success false, and no
\* operation throws because of it.
C17_MalformedBecomesFailure ==
    \A i \in DOMAIN returned :
        LET c == returned[i] IN
        (c.outcome.kind = "response" /\ Malformed(c.outcome.body)) =>
            /\ c.how = "resolved"
            /\ c.value # Null
            /\ "success" \in DOMAIN c.value
            /\ c.value.success = FALSE

\* C15 amended: when fetch rejects with a TypeError whose message mentions
\* fetch (the connection could not be made), makeRequest returns success
\* false, the error 'Cannot connect to backend server. Please check if the
\* backend URL is correct: ' followed by the base URL configured when the
\* failure is caught, and the message 'Network connection failed'; when
\* fetch rejects with anything else, it returns success false, the thrown
\* error's own message as error, and the message 'Network error occurred'.
C15_TransportFailureByKind ==
    \A c \in MakeRequestReturns :
        c.outcome.kind = "reject" =>
            /\ c.how = "resolved"
            /\ c.value =
                  IF c.outcome.fetchTypeError
                  THEN [success |-> FALSE,
                        error   |-> "Cannot connect to backend server. Please check if the backend URL is correct: " \o baseUrl,
                        message |-> "Network connection failed"]
                  ELSE [success |-> FALSE,
                        error   |-> "The operation was aborted",
                        message |-> "Network error occurred"]

\* C15 happens: the connection to the default backend cannot be made.
C15_Witness ==
    \E c \in MakeRequestReturns :
        /\ c.outcome.kind = "reject"
        /\ c.outcome.fetchTypeError
        /\ c.value.message = "Network connection failed"
        /\ EndsWith(c.value.error, ": https://cost-katana-backend.store/api")

StartsWith(str, prefix) ==
    /\ Len(str) >= Len(prefix)
    /\ SubSeq(str, 1, Len(prefix)) = prefix

C19_OneRequestPerInvocation ==
    /\ \A t \in Slots : calls[t].op = "makeRequest" => Len(calls[t].sent) = 1
    /\ \A c \in MakeRequestReturns :
          /\ Len(c.sent) = 1
          /\ c.sent[1].endpoint = "/cursor/action" => c.sent[1].method = "POST"
          /\ lastSent = <<>>
          /\ \E t \in Slots : calls[t] = Idle

\* C19 happens: the one POST of an operation fails with an error status,
\* and the operation returns the failure.
C19_Witness ==
    \E c \in MakeRequestReturns :
        /\ c.sent = <<[endpoint |-> "/cursor/action", method |-> "POST"]>>
        /\ c.builtWith = "https://example.test/api"
        /\ c.outcome.kind = "response" /\ c.outcome.status = 500
        /\ c.value.success = FALSE
        /\ lastSent = <<>>

Contains(str, part) ==
    \E i \in 1 .. Len(str) - Len(part) + 1 : SubSeq(str, i, i + Len(part) - 1) = part

\* The commands' operations that settled in the last step.
CommandReturns ==
    {returned[i] : i \in {j \in DOMAIN returned : "command" \in DOMAIN returned[j]}}

\* C20: when the operation a command awaited has failed, every error
\* message the command shows includes the error field of the result, and
\* none shows the message of an exception.
C20_CommandErrorsAreStructured ==
    \A c \in CommandReturns :
        /\ ~(c.how = "resolved" /\ c.value # Null /\ "success" \in DOMAIN c.value
                /\ c.value.success) => \E i \in DOMAIN shown : shown[i].kind = "error"
        /\ \A i \in DOMAIN shown :
              shown[i].kind = "error" =>
                  /\ c.how = "resolved"
                  /\ c.value # Null
                  /\ "error" \in DOMAIN c.value
                  /\ Contains(shown[i].text, c.value.error)
                  /\ ~Contains(shown[i].text, "Cannot read properties")

DocLabel == "AI-generated content detected"

\* An inserted run of more than 50 characters with a line break in it.
LongWithLineBreak(text) ==
    /\ Len(text) > 50
    /\ \E i \in 1 .. Len(text) : SubSeq(text, i, i) = "\n"

\* C21: the change listener hands an inserted run to the tracker iff the
\* run is longer than 50 characters and has a line break: every run the
\* listener invoked the tracker with is such a run, and no run it passed
\* over is one; so a run of 50 characters with a line break and a longer
\* run without one send nothing.
C21_AiLikeIffLongWithBreak ==
    /\ \A i \in DOMAIN trk :
          trk[i].prompt = DocLabel => LongWithLineBreak(trk[i].response)
    /\ \A i \in DOMAIN passed : ~LongWithLineBreak(passed[i])
    /\ (passed # <<>> /\ trk = <<>>) => lastSent = <<>>
    /\ \A i \in DOMAIN lastSent :
          (lastSent[i].op = "trackUsage" /\ lastSent[i].data.ai_request.prompt = DocLabel)
              => LongWithLineBreak(lastSent[i].data.ai_request.response)

\* C21 happens: a run of 50 characters with a line break was passed over
\* and nothing was sent.
C21_Witness ==
    /\ passed = <<TextShortNl>>
    /\ Len(TextShortNl) = 50
    /\ LongWithLineBreak("\n" \o TextShortNl)
    /\ trk = <<>>
    /\ lastSent = <<>>

\* The usages the listeners hand to the tracker.
TrackerUsages ==
    {[prompt |-> c.prompt, response |-> c.response] : c \in CursorCommands}
    \cup {[prompt |-> DocUsage(text).prompt, response |-> DocUsage(text).response] :
             text \in Texts}

SamePrefixes(u, v) ==
    /\ Substring0(u.prompt, 100) = Substring0(v.prompt, 100)
    /\ Substring0(u.response, 100) = Substring0(v.response, 100)

HashesAgreeWithPrefixes ==
    \A u, v \in TrackerUsages :
        RequestHash(u.prompt, u.response) = RequestHash(v.prompt, v.response)
            <=> SamePrefixes(u, v)

\* C22: two events of the automatic tracking have the same fingerprint iff
\* their labels agree on their first 100 characters and their texts agree
\* on their first 100 characters; so with the gate open an event that
\* agrees in this way with the last accepted one is suppressed, also when
\* its text is another one, and an accepted event leaves in the slot the
\* fingerprint of every event that agrees with it.
C22_FingerprintIsPrefixes ==
    /\ HashesAgreeWithPrefixes
    /\ \A i \in DOMAIN trk :
          (GateOpen(trk[i]) /\ trk[i].prior # <<>> /\ SamePrefixes(trk[i].prior[1], trk[i]))
              => (~trk[i].sent /\ trk[i].after = trk[i].before)
    /\ \A i \in DOMAIN trk :
          trk[i].sent =>
              \A u \in TrackerUsages :
                  SamePrefixes(u, trk[i])
                      <=> trk[i].after = <<RequestHash(u.prompt, u.response)>>

\* C22 happens: an inserted run of 101 characters is suppressed after
\* another was accepted that differs from it in character 101 only.
C22_Witness ==
    /\ trk # <<>>
    /\ GateOpen(trk[1])
    /\ trk[1].prior # <<>>
    /\ trk[1].prior[1].response = TextLongX
    /\ trk[1].response = TextLongY
    /\ TextLongX # TextLongY
    /\ Len(TextLongX) = 101
    /\ ~trk[1].sent
    /\ lastSent = <<>>

\* A tracking call that settled without a result of success true.
TrackingFailed(c) == c.outcome.kind = "reject" \/ ~SuccessTruthy(c.value)

\* C23: how a tracking call ends never changes the slot. In every state
\* the slot holds the fingerprint of the event accepted last (nothing, if
\* none was); so when a tracking call has failed and no other event was
\* accepted since its own, the slot holds its event's fingerprint, and an
\* event with this fingerprint that the resumed listener handles next is
\* suppressed: the failed tracking is not done again.
C23_OutcomeLeavesSlot ==
    /\ lastTrackedRequest =
          IF accepted = <<>> THEN <<>> ELSE <<FingerprintText(accepted[1])>>
    /\ \A c \in Settled("trackAIInteraction") :
          TrackingFailed(c) =>
              /\ (accepted # <<>> /\ FingerprintText(accepted[1]) = c.hash)
                    => lastTrackedRequest = <<c.hash>>
              /\ \A i \in DOMAIN trk :
                    ( /\ GateOpen(trk[i])
                      /\ trk[i].before = <<c.hash>>
                      /\ FingerprintText(trk[i]) = c.hash ) => ~trk[i].sent

\* C23 happens: a tracking call was rejected, the next change of the same
\* event has the fingerprint of the failed one and is suppressed, and the
\* slot still holds that fingerprint.
C23_Witness ==
    \E c \in Settled("trackAIInteraction") :
        /\ c.outcome.kind = "reject"
        /\ lastTrackedRequest = <<c.hash>>
        /\ Len(trk) = 1
        /\ GateOpen(trk[1])
        /\ FingerprintText(trk[1]) = c.hash
        /\ ~trk[1].sent
        /\ lastSent = <<>>

\* C24: the track-usage command sends a track_usage request only while an
\* API key is configured, whatever the user answers to the 'API key not
\* configured' message.
C24_ManualTrackingNeedsKey ==
    \A i \in DOMAIN lastSent :
        (lastSent[i].op = "trackUsage" /\ lastSent[i].endpoint = "/cursor/action") => HasApiKey

\* C25: the gate is evaluated for every change. When a tracking call of
\* the change listener settles while automatic tracking is toggled off,
\* the listener still visits the changes it had left, and for each of them
\* the tracker finds the gate closed: nothing is sent and the slot is left
\* as it was. Every invocation records the toggle as it is when it is
\* made, and none made with the toggle off is dispatched or writes the slot.
C25_GatePerChange ==
    /\ \A i \in DOMAIN trk :
          /\ trk[i].enabled = automaticTrackingEnabled
          /\ ~trk[i].enabled => (~trk[i].sent /\ trk[i].after = trk[i].before)
    /\ \A c \in Settled("trackAIInteraction") :
          ~automaticTrackingEnabled =>
              /\ lastSent = <<>>
              /\ Len(trk) + Len(passed) = Len(c.rest)
              /\ \A i \in DOMAIN trk : lastTrackedRequest = trk[i].before

\* C25 happens: automatic tracking was toggled off while the first change
\* of an event was being tracked; the call settled, the change left, which
\* has another fingerprint than the slot, was handed to the tracker, and
\* nothing was sent for it.
C25_Witness ==
    \E c \in Settled("trackAIInteraction") :
        /\ ~automaticTrackingEnabled
        /\ HasApiKey
        /\ c.rest # <<>>
        /\ Len(trk) = Len(c.rest)
        /\ trk[1].before # <<FingerprintText(trk[1])>>
        /\ ~trk[1].sent
        /\ lastSent = <<>>
        /\ lastTrackedRequest = trk[1].before

PollInFlight == \E t \in Slots : calls[t].op = "poll"

\* A tick sends its get_analytics request.
TickSends ==
    \E i \in DOMAIN timers :
        /\ PollTick(i)
        /\ lastSent' # <<>>
        /\ lastSent'[1].op = "getAnalytics"
        /\ \A t \in Slots : calls[t].op = "poll" => calls'[t] = calls[t]

\* C26: ticks do not exclude one another. In every state in which the
\* timer is set, also while the request of an earlier tick is in flight, a
\* tick can fire, and it sends its get_analytics request and leaves the
\* polls in flight as they are.
C26_TicksOverlap ==
    /\ timers # <<>> => ENABLED TickSends
    /\ (timers # <<>> /\ PollInFlight) => ENABLED TickSends

\* C26 happens: a tick has just sent its request, for the base URL
\* configured now, while the request of an earlier tick, built for another
\* base URL, is still in flight.
C26_Witness ==
    /\ lastSent # <<>>
    /\ lastSent[1].op = "getAnalytics"
    /\ lastSent[1].url = baseUrl \o "/cursor/action"
    /\ \E t \in Slots : calls[t].op = "poll" /\ calls[t].builtWith # baseUrl

\* C27: neither the API key nor the toggle gates the poller. In every
\* state in which the timer is set, a tick can fire and send its
\* get_analytics request when no API key is configured and when automatic
\* tracking is off; and a poll that settles shows something, the status,
\* only for a result with success true and data.
C27_PollerUngated ==
    /\ (timers # <<>> /\ ~HasApiKey) => ENABLED TickSends
    /\ (timers # <<>> /\ ~automaticTrackingEnabled) => ENABLED TickSends
    /\ \A c \in Settled("poll") :
          shown # <<>> =>
              /\ Len(shown) = 1
              /\ shown[1].kind = "information"
              /\ StartsWith(shown[1].text, "Cost Katana Status: ")
              /\ SuccessTruthy(c.value)
              /\ Has(c.value, "data")

\* C27 happens: with no API key and automatic tracking off, a tick has
\* sent its get_analytics request, without an Authorization header.
C27_Witness ==
    /\ timers # <<>>
    /\ ~HasApiKey
    /\ ~automaticTrackingEnabled
    /\ lastSent # <<>>
    /\ lastSent[1].op = "getAnalytics"
    /\ "Authorization" \notin DOMAIN lastSent[1].headers

\* C28: under the configure, track-usage, connect-account and toggle
\* commands the configuration never loses a value: the base URL is a
\* non-empty string in every state, and no step takes the API key from
\* hasApiKey true to false.
C28_ConfigNeverLosesValue ==
    /\ [](baseUrl # Undefined /\ baseUrl # "")
    /\ [][HasApiKey => HasApiKey']_vars

\* C28 happens: the configure command has run with its key box cancelled
\* or left empty, and the key configured before is still there.
C28_Witness ==
    /\ shown = <<Information("Configuration updated successfully!")>>
    /\ apiKey = "k1"
    /\ "k1" \notin KeyInputs
    /\ baseUrl = "https://example.test/api"

\* An exchange answered with a 2xx status and a JSON body (null or an
\* object) in which success is not truthy.
OkWithoutSuccess(o) ==
    /\ o.kind = "response"
    /\ o.status \in 200 .. 299
    /\ o.body # NonJson
    /\ o.body = Null \/ "success" \notin DOMAIN o.body \/ ~o.body.success

\* C29: validateConnection judges a probe by the success field of the
\* body, not by the status. Whenever a probe is answered with a 2xx status
\* and a JSON body without a truthy success, it is a failed probe: while
\* paths are left the call goes on with the next path, and when it was the
\* third probe the aggregate failure is returned.
C29_ProbeJudgedBySuccessField ==
    /\ [](\A c \in Settled("validateConnection") :
            OkWithoutSuccess(c.outcome) =>
                /\ Len(c.sent) = 3
                /\ c.value = [success |-> FALSE, error |-> "All health check endpoints failed"])
    /\ [][\A t \in Slots, o \in Outcomes :
            (OkWithoutSuccess(o) /\ ProbeSettles(t, o)) =>
                LET n == Len(calls[t].sent)
                IN  IF n < 3
                    THEN /\ returned' = <<>>
                         /\ calls'[t].op = "validateConnection"
                         /\ Len(calls'[t].sent) = n + 1
                         /\ lastSent' # <<>>
                         /\ lastSent'[1].endpoint = HealthOrder[n + 1]
                    ELSE /\ lastSent' = <<>>
                         /\ calls'[t] = Idle
                         /\ returned' # <<>>
                         /\ returned'[1].how = "resolved"
                         /\ returned'[1].value =
                               [success |-> FALSE, error |-> "All health check endpoints failed"]]_vars

\* C29 happens: the third path was answered with status 200 and an object
\* without a success field, and the aggregate failure was returned.
C29_Witness ==
    \E c \in Settled("validateConnection") :
        /\ Len(c.sent) = 3
        /\ c.outcome.kind = "response"
        /\ c.outcome.status = 200
        /\ c.outcome.body = Obj("absent", FALSE, FALSE, FALSE)
        /\ c.value = [success |-> FALSE, error |-> "All health check endpoints failed"]

\* The invocations of the tracker by the Cursor command listeners.
CursorInvocations ==
    {trk[i] : i \in {j \in DOMAIN trk :
                        \E c \in CursorCommands :
                            c.prompt = trk[j].prompt /\ c.response = trk[j].response}}

\* C30 as stated: in a run of consecutive invocations of one Cursor
\* command, every invocation after the first is suppressed.
C30_LaterInRunSuppressed ==
    \A inv \in CursorInvocations : inv.run = <<inv.prompt>> => ~inv.sent

\* The last event accepted was of the command of inv.
AcceptedInRun(inv) ==
    /\ inv.prior # <<>>
    /\ inv.prior[1].prompt = inv.prompt
    /\ inv.prior[1].response = inv.response

\* C30: each Cursor command listener hands a constant label and response
\* to the tracker, so within a run of invocations of one command with no
\* other accepted event in between at most one invocation is dispatched:
\* the first one made with the gate open. Every invocation after an
\* accepted one of the run is suppressed, and one made with the gate closed
\* sends nothing.
C30_OneDispatchPerRun ==
    /\ \A i \in DOMAIN trk :
          \A c \in CursorCommands :
              trk[i].prompt = c.prompt => trk[i].response = c.response
    /\ \A inv \in CursorInvocations :
          /\ AcceptedInRun(inv) => ~inv.sent
          /\ ~GateOpen(inv) => ~inv.sent
          /\ (GateOpen(inv) /\ ~AcceptedInRun(inv)) => inv.sent
          /\ inv.sent =>
                (lastSent # <<>> /\ lastSent[1].data.ai_request.prompt = inv.prompt)

\* C30 happens: cursor.chat is invoked again with the gate open after an
\* invocation of it was accepted, and nothing is sent.
C30_Witness ==
    \E inv \in CursorInvocations :
        /\ inv.prompt = "Cursor chat interaction"
        /\ inv.run = <<inv.prompt>>
        /\ AcceptedInRun(inv)
        /\ GateOpen(inv)
        /\ ~inv.sent
        /\ lastSent = <<>>

====
